---- MODULE Spec2Model ----
(***************************************************************************)
(* Model of the two decorators of omni/isaac/orbit/sim/utils.py:           *)
(*   apply_nested  - breadth-first walk applying a function to the prims   *)
(*                   under a prim path (the "Subtree Applier");            *)
(*   clone         - spawn at the first matching path and clone to the     *)
(*                   others (the "Instance Fan-out").                      *)
(* The USD stage, the spawner function, the wrapped function and the       *)
(* cloner are the host's: the model draws what they return from small sets *)
(* and records every call made to them.                                    *)
(***************************************************************************)
EXTENDS Integers, Sequences, FiniteSets, TLC

\* ------------------------------------------------------------------ bounds
\* Number of prims on the stage.
MaxNodes == 5
\* Longest prim path given to a clone-wrapped spawner, in characters.
MaxPathLen == 3
\* Number of prims the host can match a parent expression to.
MaxMatches == 3

\* ------------------------------------------------------------- USD stage
\* Prims are numbered 1..MaxNodes; a prim's number stands for its path.
Nodes == 1..MaxNodes

\* A prim path that names no prim of the stage: GetPrimAtPath gives an invalid prim.
InvalidPath == 0

VARIABLES
    parent,                \* stage: parent[n] is the parent prim of n (0: child of the pseudo-root)
    instance,              \* stage: the prims for which IsInstance() is true
    pc,                    \* apply_nested.wrapper: "idle", "loop", "done", "raised"
    prim_path,             \* apply_nested.wrapper: the prim_path argument
    all_prims,             \* apply_nested.wrapper: the work list
    count_success,         \* apply_nested.wrapper: number of prims func succeeded on
    instanced_prim_paths,  \* apply_nested.wrapper: instanced prims met
    error,                 \* apply_nested.wrapper: the exception that ended the call
    dequeued,              \* history: prims popped from all_prims, in order
    enqueued,              \* history: prims ever put on all_prims, in order
    func_calls,            \* history: calls of func, [path, raised, result], in order
    log_warn,              \* history: carb.log_warn messages of the call
    cpc,                   \* clone.wrapper: where the call is
    clone_prim_path,       \* clone.wrapper: the prim_path argument, a sequence of characters
    cfg,                   \* clone.wrapper: the cfg argument
    isaac_major_version,   \* clone.wrapper: int(get_version()[2]), 0 until it is read
    root_path,             \* clone.wrapper: prim_path up to its last "/"
    asset_path,            \* clone.wrapper: prim_path after its last "/"
    source_prim_paths,     \* clone.wrapper: the parent paths spawned under
    prim_paths,            \* clone.wrapper: the paths to spawn and clone at
    prim,                  \* clone.wrapper: what func returned
    ret,                   \* clone.wrapper: the value the call returned
    cerror,                \* clone.wrapper: the exception that ended the call
    host_calls,            \* history: calls made to func and the host, in order
    binder,                \* bind_*_material: which of the two wrapped functions is called
    material_path,         \* bind_*_material: the material_path argument
    bound                  \* stage: the material bindings made, [prim, material]

applyVars == <<pc, prim_path, all_prims, count_success, instanced_prim_paths, error,
               dequeued, enqueued, func_calls, log_warn>>
stageVars == <<parent, instance>>
cloneVars == <<cpc, clone_prim_path, cfg, isaac_major_version, root_path, asset_path,
               source_prim_paths, prim_paths, prim, ret, cerror, host_calls>>
bindVars == <<binder, material_path, bound>>

\* The stages: every tree over Nodes in which prim 1 is the top prim and the
\* children of a prim are enumerated in increasing number.
Stages == {f \in [Nodes -> 0..(MaxNodes - 1)] :
              /\ f[1] = 0
              /\ \A n \in Nodes \ {1} : f[n] \in 1..(n - 1)}

\* prim.IsValid() of stage.GetPrimAtPath(p)
IsValid(p) == p \in Nodes

\* Mutant: the instance check is left out.
IsInstanceUnchecked(n) == FALSE

\* prim.IsInstance()
IsInstance(n) == n \in instance

Children(n) == {c \in Nodes : parent[c] = n}

RECURSIVE SortedSeq(_)
SortedSeq(S) ==
    IF S = {} THEN <<>>
    ELSE LET m == CHOOSE x \in S : \A y \in S : x <= y
         IN  <<m>> \o SortedSeq(S \ {m})

\* prim.GetChildren(): the children in the host's enumeration order
GetChildren(n) == SortedSeq(Children(n))

RECURSIVE Ancestors(_)
\* The proper ancestors of a prim on the stage.
Ancestors(n) ==
    IF parent[n] = 0 THEN {} ELSE {parent[n]} \cup Ancestors(parent[n])

Descendants(n) == {d \in Nodes : n \in Ancestors(d)}

Range(s) == {s[i] : i \in 1..Len(s)}

\* --------------------------------------------------- apply_nested.wrapper
\* all_prims.pop(0): the prim taken and what is left
PopPrim(q) == Head(q)
PopRest(q) == Tail(q)

\* Mutant: the children are added twice.
ExtendPrimsTwice(rest, child_prim, success) ==
    IF ~success THEN rest \o GetChildren(child_prim) \o GetChildren(child_prim) ELSE rest

\* Mutant: the children are added when func succeeded instead of when it failed.
ExtendPrimsOnSuccess(rest, child_prim, success) ==
    IF success THEN rest \o GetChildren(child_prim) ELSE rest

\* Mutant: the children are added whether or not func succeeded.
ExtendPrimsAlways(rest, child_prim, success) == rest \o GetChildren(child_prim)

\* Mutant: only the first child is added.
ExtendPrimsFirstChild(rest, child_prim, success) ==
    IF ~success /\ GetChildren(child_prim) # <<>>
    THEN Append(rest, Head(GetChildren(child_prim)))
    ELSE rest

\* Mutant: the children are put at the front of the work list.
ExtendPrimsFront(rest, child_prim, success) ==
    IF ~success THEN GetChildren(child_prim) \o rest ELSE rest

\* "if not success: all_prims += child_prim.GetChildren()"
ExtendPrims(rest, child_prim, success) ==
    IF ~success THEN rest \o GetChildren(child_prim) ELSE rest

\* Mutant: the success is not counted.
CountAfterForgotten(count, success) == count

\* "else: count_success += 1"
CountAfter(count, success) == IF success THEN count + 1 ELSE count

\* Mutant: the warning is also given after a single success.
WarnNeededOffByOne(count) == count <= 1

\* "if count_success == 0: carb.log_warn(...)"
WarnNeeded(count) == count = 0

\* Mutant: the validity check is left out.
CheckPrimSkipped(p) == TRUE

\* "if not prim.IsValid(): raise ValueError"
CheckPrim(p) == IsValid(p)

\* Entry of the wrapper: the prim is looked up and checked, the walk is set up.
ApplyEnter(p) ==
    /\ pc = "idle"
    /\ prim_path' = p
    /\ IF ~CheckPrim(p)
       THEN /\ pc' = "raised"
            /\ error' = "ValueError"
            /\ UNCHANGED <<all_prims, count_success, instanced_prim_paths, enqueued>>
       ELSE /\ pc' = "loop"
            /\ count_success' = 0
            /\ instanced_prim_paths' = <<>>
            /\ all_prims' = <<p>>
            /\ enqueued' = <<p>>
            /\ UNCHANGED error
    /\ UNCHANGED <<dequeued, func_calls, log_warn>>

\* The wrapper is called around a function the model knows only the results of.
ApplyCall(p) ==
    /\ ApplyEnter(p)
    /\ UNCHANGED <<stageVars, cloneVars, bindVars>>

\* One iteration on an instanced prim: recorded, not passed to func, no descent.
SkipInstance ==
    /\ pc = "loop"
    /\ Len(all_prims) > 0
    /\ LET child_prim == PopPrim(all_prims) IN
       /\ IsInstance(child_prim)
       /\ all_prims' = PopRest(all_prims)
       /\ instanced_prim_paths' = Append(instanced_prim_paths, child_prim)
       /\ dequeued' = Append(dequeued, child_prim)
    /\ UNCHANGED <<pc, prim_path, count_success, error, enqueued, func_calls, log_warn,
                   stageVars, cloneVars, bindVars>>

\* One iteration on a prim func returns a value for: what the wrapper does with it.
AfterFunc(success) ==
    LET child_prim == PopPrim(all_prims)
        rest == PopRest(all_prims)
    IN
    /\ func_calls' = Append(func_calls, [path |-> child_prim, raised |-> FALSE,
                                            result |-> success])
    /\ all_prims' = ExtendPrims(rest, child_prim, success)
    /\ enqueued' = enqueued \o SubSeq(all_prims', Len(rest) + 1, Len(all_prims'))
    /\ count_success' = CountAfter(count_success, success)
    /\ dequeued' = Append(dequeued, child_prim)
    /\ UNCHANGED <<pc, prim_path, instanced_prim_paths, error, log_warn>>

\* func returns True on the prim taken from the work list.
ApplySuccess ==
    /\ pc = "loop"
    /\ Len(all_prims) > 0
    /\ ~IsInstance(PopPrim(all_prims))
    /\ AfterFunc(TRUE)
    /\ UNCHANGED <<stageVars, cloneVars, bindVars>>

\* func returns False on the prim taken from the work list.
ApplyFailure ==
    /\ pc = "loop"
    /\ Len(all_prims) > 0
    /\ ~IsInstance(PopPrim(all_prims))
    /\ AfterFunc(FALSE)
    /\ UNCHANGED <<stageVars, cloneVars, bindVars>>

\* One iteration on a prim func raises exc on: the exception leaves the wrapper.
FuncRaises(exc) ==
    /\ pc = "loop"
    /\ Len(all_prims) > 0
    /\ LET child_prim == PopPrim(all_prims) IN
       /\ ~IsInstance(child_prim)
       /\ all_prims' = PopRest(all_prims)
       /\ func_calls' = Append(func_calls, [path |-> child_prim, raised |-> TRUE,
                                               result |-> FALSE])
       /\ dequeued' = Append(dequeued, child_prim)
    /\ pc' = "raised"
    /\ error' = exc
    /\ UNCHANGED <<prim_path, count_success, instanced_prim_paths, enqueued, log_warn>>

\* func raises an exception of its own.
ApplyRaise ==
    /\ FuncRaises("FuncError")
    /\ UNCHANGED <<stageVars, cloneVars, bindVars>>

\* The work list is empty: warn if func succeeded nowhere, and return.
ApplyFinish ==
    /\ pc = "loop"
    /\ Len(all_prims) = 0
    /\ log_warn' = IF WarnNeeded(count_success)
                   THEN Append(log_warn, [under |-> prim_path,
                                          instanced |-> instanced_prim_paths])
                   ELSE log_warn
    /\ pc' = "done"
    /\ UNCHANGED <<prim_path, all_prims, count_success, instanced_prim_paths, error,
                   dequeued, enqueued, func_calls, stageVars, cloneVars, bindVars>>

InitApply ==
    /\ pc = "idle"
    /\ prim_path = InvalidPath
    /\ all_prims = <<>>
    /\ count_success = 0
    /\ instanced_prim_paths = <<>>
    /\ error = "none"
    /\ dequeued = <<>>
    /\ enqueued = <<>>
    /\ func_calls = <<>>
    /\ log_warn = <<>>

\* ------------------------------------- bind_visual_material, bind_physics_material
\* The two apply_nested-wrapped functions of the module.
Binders == {"visual", "physics"}

\* material_path arguments: a path that names no prim, and the path of a prim.
MaterialPaths == {InvalidPath, 1}

\* "if not stage.GetPrimAtPath(prim_path).IsValid(): raise ValueError" and
\* "if not stage.GetPrimAtPath(material_path).IsValid(): raise ValueError"
PathsExist(p, m) == IsValid(p) /\ IsValid(m)

\* bind_visual_material(prim_path, material_path) or
\* bind_physics_material(prim_path, material_path) is called.
BindCall(kind, p, m) ==
    /\ ApplyEnter(p)
    /\ binder' = kind
    /\ material_path' = m
    /\ UNCHANGED <<bound, stageVars, cloneVars>>

\* Either function on the prim taken from the work list, one of the two paths
\* naming no prim: ValueError.
BindRaise ==
    /\ binder \in Binders
    /\ Len(all_prims) > 0
    /\ ~PathsExist(PopPrim(all_prims), material_path)
    /\ FuncRaises("ValueError")
    /\ UNCHANGED <<bindVars, stageVars, cloneVars>>

\* bind_visual_material on the prim taken from the work list: the host's
\* BindMaterialCommand binds the material or reports failure.
BindVisual(success) ==
    /\ binder = "visual"
    /\ pc = "loop"
    /\ Len(all_prims) > 0
    /\ ~IsInstance(PopPrim(all_prims))
    /\ PathsExist(PopPrim(all_prims), material_path)
    /\ bound' = IF success
                THEN bound \cup {[prim |-> PopPrim(all_prims), material |-> material_path]}
                ELSE bound
    /\ AfterFunc(success)
    /\ UNCHANGED <<binder, material_path, stageVars, cloneVars>>

\* bind_physics_material on the prim taken from the work list: a prim that is no
\* PhysX scene, collider, deformable body or particle system gives False, any
\* other prim is bound the material.
BindPhysics(has_physics) ==
    /\ binder = "physics"
    /\ pc = "loop"
    /\ Len(all_prims) > 0
    /\ ~IsInstance(PopPrim(all_prims))
    /\ PathsExist(PopPrim(all_prims), material_path)
    /\ bound' = IF has_physics
                THEN bound \cup {[prim |-> PopPrim(all_prims), material |-> material_path]}
                ELSE bound
    /\ AfterFunc(has_physics)
    /\ UNCHANGED <<binder, material_path, stageVars, cloneVars>>

InitBind ==
    /\ binder = "none"
    /\ material_path = InvalidPath
    /\ bound = {}

\* ----------------------------------------------------------- clone.wrapper
\* Prim paths are sequences of characters. "a" stands for the characters a prim
\* path may hold besides "/" (letters, digits, "_"), "*" for the characters of an
\* expression that a prim path may not hold.
PathChars == {"a", "/", "*"}

PrimPathInputs == UNION {[1..k -> PathChars] : k \in 0..MaxPathLen}

HasSep(s) == \E i \in 1..Len(s) : s[i] = "/"

LastSep(s) == CHOOSE i \in 1..Len(s) : s[i] = "/" /\ \A j \in (i + 1)..Len(s) : s[j] # "/"

\* prim_path.rsplit("/", 1), for a path that holds a "/"
RSplit(s) == <<SubSeq(s, 1, LastSep(s) - 1), SubSeq(s, LastSep(s) + 1, Len(s))>>

\* The character class [a-zA-Z0-9/_]
InPathClass(c) == c \in {"a", "/"}

\* re.match(r"^[a-zA-Z0-9/_]+$", s) is not None; "$" also matches before a final newline
ReMatch(s) ==
    LET core == IF Len(s) > 0 /\ s[Len(s)] = "\n" THEN SubSeq(s, 1, Len(s) - 1) ELSE s
    IN  Len(core) > 0 /\ \A i \in 1..Len(core) : InPathClass(core[i])

IsRegexExpression(root) == ~ReMatch(root)

\* Mutant: the empty parent path is not excepted.
NeedsResolutionOfEmpty(root) == IsRegexExpression(root)

\* "if is_regex_expression and root_path != ''"
NeedsResolution(root) == IsRegexExpression(root) /\ root # <<>>

\* The k-th prim of the stage a parent expression can match: "/a", "/aa", ...
StagePath(k) == <<"/">> \o [i \in 1..k |-> "a"]

\* prim_utils.find_matching_prim_paths: some of the stage's prims, in the stage's order
MatchLists ==
    {[i \in 1..Cardinality(S) |-> StagePath(SortedSeq(S)[i])] : S \in SUBSET (1..MaxMatches)}

\* Mutant: an empty match list is not checked for.
NoMatchUnchecked(matches) == FALSE

\* "if len(source_prim_paths) == 0: raise RuntimeError"
NoMatch(matches) == Len(matches) = 0

\* [f"{source_prim_path}/{asset_path}" for source_prim_path in source_prim_paths]
CandidatePaths(sources, asset) ==
    [i \in 1..Len(sources) |-> sources[i] \o <<"/">> \o asset]

\* Mutant: the last path is taken.
SpawnPathLast(paths) == paths[Len(paths)]

\* prim_paths[0], the path func is called at
SpawnPath(paths) == paths[1]

\* "if len(prim_paths) > 1"
CloneNeeded(paths) == Len(paths) > 1

\* Mutant: the source path is among the targets.
CloneTargetsAll(paths) == paths

\* prim_paths[1:], the paths cloned to
CloneTargets(paths) == Tail(paths)

\* "return prim"
ReturnValue(spawned) == spawned

\* "isaac_major_version <= 2022"
LastVersionWithoutCopyFlag == 2022
\* Mutant: the last version without the flag is taken for one that has it.
OldClonerStrict(version) == version < LastVersionWithoutCopyFlag

OldCloner(version) == version <= LastVersionWithoutCopyFlag

\* get_version()[2] of the hosts: the last one whose cloner takes no copy_from_source,
\* the one before it and the one after it.
IsaacVersions ==
    {LastVersionWithoutCopyFlag - 1, LastVersionWithoutCopyFlag, LastVersionWithoutCopyFlag + 1}

\* What func can return: handles of prims.
Handles == {"primA", "primB"}

\* The configurations: each attribute may be missing from cfg (has = FALSE).
VisibleChoices ==
    {[has |-> FALSE, value |-> FALSE], [has |-> TRUE, value |-> TRUE],
     [has |-> TRUE, value |-> FALSE]}

\* Semantic types and values: "object type", "soda can", one with two spaces in a
\* row and one without spaces.
SemanticWordA == <<"o", "b", "j", "e", "c", "t", " ", "t", "y", "p", "e">>
SemanticWordB == <<"s", "o", "d", "a", " ", "c", "a", "n">>
SemanticWordC == <<"a", " ", " ", "b">>
SemanticWordD == <<"k">>

\* cfg.semantic_tags: missing, None, or a list of (type, value) pairs
SemanticTagChoices ==
    {[kind |-> "absent", tags |-> <<>>], [kind |-> "None", tags |-> <<>>],
     [kind |-> "list", tags |-> << <<SemanticWordA, SemanticWordB>> >>],
     [kind |-> "list", tags |-> << <<SemanticWordC, SemanticWordA>>,
                                   <<SemanticWordD, SemanticWordD>> >>]}

\* cfg.activate_contact_sensors: missing, a bool, a str, or a value of another type
ActivateChoices ==
    {[kind |-> "absent", flag |-> FALSE, pattern |-> <<>>],
     [kind |-> "bool", flag |-> TRUE, pattern |-> <<>>],
     [kind |-> "bool", flag |-> FALSE, pattern |-> <<>>],
     [kind |-> "str", flag |-> FALSE, pattern |-> <<"*">>],
     [kind |-> "other", flag |-> FALSE, pattern |-> <<>>]}

\* cfg.copy_from_source is read without a hasattr check: every cfg carries it.
CopyFromSourceChoices == BOOLEAN

Cfgs == [visible : VisibleChoices, semantic_tags : SemanticTagChoices,
         activate_contact_sensors : ActivateChoices,
         copy_from_source : CopyFromSourceChoices]

NoCfg == [visible |-> [has |-> FALSE, value |-> FALSE],
          semantic_tags |-> [kind |-> "absent", tags |-> <<>>],
          activate_contact_sensors |-> [kind |-> "absent", flag |-> FALSE, pattern |-> <<>>],
          copy_from_source |-> FALSE]

\* The wrapper is called: the path is split and the parent expression resolved.
CloneCall(pp, c) ==
    /\ cpc = "idle"
    /\ clone_prim_path' = pp
    /\ cfg' = c
    /\ IF ~HasSep(pp)
       THEN \* root_path, asset_path = [prim_path]: not enough values to unpack
            /\ cpc' = "raised"
            /\ cerror' = "ValueError"
            /\ UNCHANGED <<root_path, asset_path, source_prim_paths, prim_paths,
                           host_calls>>
       ELSE LET root == RSplit(pp)[1]
                asset == RSplit(pp)[2]
            IN
            /\ root_path' = root
            /\ asset_path' = asset
            /\ IF NeedsResolution(root)
               THEN \E matches \in MatchLists :
                       /\ host_calls' = Append(host_calls,
                              [call |-> "find_matching_prim_paths", pattern |-> root,
                               result |-> matches])
                       /\ IF NoMatch(matches)
                          THEN /\ cpc' = "raised"
                               /\ cerror' = "RuntimeError"
                               /\ UNCHANGED <<source_prim_paths, prim_paths>>
                          ELSE /\ source_prim_paths' = matches
                               /\ prim_paths' = CandidatePaths(matches, asset)
                               /\ cpc' = "resolved"
                               /\ UNCHANGED cerror
               ELSE /\ source_prim_paths' = <<root>>
                    /\ prim_paths' = CandidatePaths(<<root>>, asset)
                    /\ cpc' = "resolved"
                    /\ UNCHANGED <<cerror, host_calls>>
    /\ UNCHANGED <<isaac_major_version, prim, ret, stageVars, applyVars, bindVars>>

\* "prim = func(prim_paths[0], cfg, *args, **kwargs)"
Spawn(handle) ==
    /\ cpc = "resolved"
    /\ host_calls' = Append(host_calls, [call |-> "func", prim_path |-> SpawnPath(prim_paths),
                                         returned |-> handle])
    /\ prim' = handle
    /\ cpc' = "spawned"
    /\ UNCHANGED <<clone_prim_path, cfg, isaac_major_version, root_path, asset_path,
                   source_prim_paths, prim_paths, ret, cerror, stageVars, applyVars, bindVars>>

\* "if hasattr(cfg, 'visible'): prim_utils.set_prim_visibility(prim, cfg.visible)"
SetVisibility ==
    /\ cpc = "spawned"
    /\ host_calls' = IF cfg.visible.has
                     THEN Append(host_calls, [call |-> "set_prim_visibility", prim |-> prim,
                                              visible |-> cfg.visible.value])
                     ELSE host_calls
    /\ cpc' = "visibility_set"
    /\ UNCHANGED <<clone_prim_path, cfg, isaac_major_version, root_path, asset_path,
                   source_prim_paths, prim_paths, prim, ret, cerror, stageVars, applyVars, bindVars>>

\* Mutant: only the first space is replaced.
SanitizeFirstOnly(s) ==
    [i \in 1..Len(s) |->
        IF s[i] = " " /\ (\A j \in 1..(i - 1) : s[j] # " ") THEN "_" ELSE s[i]]

\* semantic_type.replace(" ", "_")
Sanitize(s) == [i \in 1..Len(s) |-> IF s[i] = " " THEN "_" ELSE s[i]]

\* f"{semantic_type_sanitized}_{semantic_value_sanitized}"
InstanceName(semantic_type, semantic_value) ==
    Sanitize(semantic_type) \o <<"_">> \o Sanitize(semantic_value)

\* The semantics written for one (type, value) pair of cfg.semantic_tags.
SemanticsFor(spawned, tag) ==
    [call |-> "SemanticsAPI.Apply", prim |-> spawned,
     instance_name |-> InstanceName(tag[1], tag[2]),
     semantic_type |-> tag[1], semantic_data |-> tag[2]]

\* "if hasattr(cfg, 'semantic_tags') and cfg.semantic_tags is not None: for ..."
SetSemanticTags ==
    /\ cpc = "visibility_set"
    /\ host_calls' = IF cfg.semantic_tags.kind = "list"
                     THEN host_calls \o [i \in 1..Len(cfg.semantic_tags.tags) |->
                                            SemanticsFor(prim, cfg.semantic_tags.tags[i])]
                     ELSE host_calls
    /\ cpc' = "tagged"
    /\ UNCHANGED <<clone_prim_path, cfg, isaac_major_version, root_path, asset_path,
                   source_prim_paths, prim_paths, prim, ret, cerror, stageVars, applyVars, bindVars>>

\* The prims under the spawned prim a contact-sensor expression can match.
ActivationMatchLists(first) ==
    {<<>>, <<first \o <<"/", "a">>, first \o <<"/", "a", "a">> >>}

\* Mutant: the sensors are activated at the first path only.
ActivationCallsFirstOnly(paths) ==
    IF paths = <<>> THEN <<>>
    ELSE <<[call |-> "activate_contact_sensors", prim_path |-> paths[1]]>>

\* "for activate_path in activate_paths: schemas.activate_contact_sensors(activate_path, 1.)"
ActivationCalls(paths) ==
    [i \in 1..Len(paths) |-> [call |-> "activate_contact_sensors", prim_path |-> paths[i]]]

\* Mutant: a true selector activates the sensors at every candidate path.
BoolActivatePathsAll(flag, paths) == IF flag THEN paths ELSE <<>>

\* "activate_paths = [prim_paths[0]] if activate_contact_sensors else []"
BoolActivatePaths(flag, paths) == IF flag THEN <<SpawnPath(paths)>> ELSE <<>>

\* Mutant: a selector of another type is passed over like a missing one.
SelectorKindLenient(selector) ==
    IF selector.kind = "other" THEN "absent" ELSE selector.kind

\* hasattr(cfg, "activate_contact_sensors") and the isinstance tests on its value
SelectorKind(selector) == selector.kind

\* "if hasattr(cfg, 'activate_contact_sensors'): ..."
ActivateContactSensors ==
    /\ cpc = "tagged"
    /\ LET activate_contact_sensors == cfg.activate_contact_sensors IN
       CASE SelectorKind(activate_contact_sensors) = "absent" ->
              /\ cpc' = "activated"
              /\ UNCHANGED <<host_calls, cerror>>
         [] SelectorKind(activate_contact_sensors) = "str" ->
              \E activate_paths \in ActivationMatchLists(SpawnPath(prim_paths)) :
                 /\ host_calls' =
                       Append(host_calls,
                              [call |-> "find_matching_prim_paths",
                               pattern |-> SpawnPath(prim_paths) \o <<"/">>
                                              \o activate_contact_sensors.pattern,
                               result |-> activate_paths])
                       \o ActivationCalls(activate_paths)
                 /\ cpc' = "activated"
                 /\ UNCHANGED cerror
         [] SelectorKind(activate_contact_sensors) = "bool" ->
              /\ host_calls' = host_calls \o
                    ActivationCalls(BoolActivatePaths(activate_contact_sensors.flag,
                                                      prim_paths))
              /\ cpc' = "activated"
              /\ UNCHANGED cerror
         [] OTHER ->
              /\ cpc' = "raised"
              /\ cerror' = "ValueError"
              /\ UNCHANGED host_calls
    /\ UNCHANGED <<clone_prim_path, cfg, isaac_major_version, root_path, asset_path,
                   source_prim_paths, prim_paths, prim, ret, stageVars, applyVars, bindVars>>

\* "if len(prim_paths) > 1: ... int(get_version()[2]) ... cloner.clone(...)"
CloneAssets(version) ==
    /\ cpc = "activated"
    /\ IF ~CloneNeeded(prim_paths)
       THEN UNCHANGED <<host_calls, isaac_major_version>>
       ELSE /\ isaac_major_version' = version
            /\ host_calls' = Append(host_calls,
                   [call |-> "Cloner.clone", source |-> SpawnPath(prim_paths),
                    targets |-> CloneTargets(prim_paths), replicate_physics |-> FALSE,
                    copy_from_source |-> IF OldCloner(version) THEN "omitted"
                                         ELSE IF cfg.copy_from_source THEN "True"
                                         ELSE "False"])
    /\ cpc' = "cloned"
    /\ UNCHANGED <<clone_prim_path, cfg, root_path, asset_path, source_prim_paths,
                   prim_paths, prim, ret, cerror, stageVars, applyVars, bindVars>>

\* "return prim"
CloneReturn ==
    /\ cpc = "cloned"
    /\ ret' = ReturnValue(prim)
    /\ cpc' = "done"
    /\ UNCHANGED <<clone_prim_path, cfg, isaac_major_version, root_path, asset_path,
                   source_prim_paths, prim_paths, prim, cerror, host_calls, stageVars,
                   applyVars, bindVars>>

InitClone ==
    /\ cpc = "idle"
    /\ clone_prim_path = <<>>
    /\ cfg = NoCfg
    /\ root_path = <<>>
    /\ asset_path = <<>>
    /\ source_prim_paths = <<>>
    /\ prim_paths = <<>>
    /\ prim = "none"
    /\ ret = "none"
    /\ cerror = "none"
    /\ host_calls = <<>>
    /\ isaac_major_version = 0

\* ------------------------------------------------------- specifications
InitStage ==
    /\ parent \in Stages
    /\ instance \in SUBSET Nodes

vars == <<stageVars, applyVars, cloneVars, bindVars>>

\* Calls of an apply_nested-wrapped function on every stage.
Init ==
    /\ InitStage
    /\ InitApply
    /\ InitClone
    /\ InitBind

Next ==
    \/ pc = "idle" /\ \E p \in Nodes \cup {InvalidPath} : ApplyCall(p)
    \/ SkipInstance
    \/ ApplySuccess
    \/ ApplyFailure
    \/ ApplyRaise
    \/ ApplyFinish

Spec == Init /\ [][Next]_vars

\* Calls of a clone-wrapped spawner.
InitFanOut ==
    /\ parent = [n \in Nodes |-> n - 1]
    /\ instance = {}
    /\ InitApply
    /\ InitClone
    /\ InitBind

NextFanOut ==
    \/ cpc = "idle" /\ \E pp \in PrimPathInputs, c \in Cfgs : CloneCall(pp, c)
    \/ \E handle \in Handles : Spawn(handle)
    \/ SetVisibility
    \/ SetSemanticTags
    \/ ActivateContactSensors
    \/ \E version \in IsaacVersions : CloneAssets(version)
    \/ CloneReturn

SpecFanOut == InitFanOut /\ [][NextFanOut]_vars

\* Calls of an apply_nested-wrapped function that returns True or False on every
\* prim. The wrapper is one synchronous Python call: once entered, its while loop
\* keeps taking iterations until the work list is empty, and then returns.
WalkStep == SkipInstance \/ ApplySuccess \/ ApplyFailure \/ ApplyFinish

NextReturning ==
    \/ pc = "idle" /\ \E p \in Nodes \cup {InvalidPath} : ApplyCall(p)
    \/ SkipInstance
    \/ ApplySuccess
    \/ ApplyFailure
    \/ ApplyFinish

SpecReturning == Init /\ [][NextReturning]_vars /\ WF_vars(WalkStep)

\* Calls of bind_visual_material and bind_physics_material on every stage.
NextBind ==
    \/ pc = "idle" /\ \E kind \in Binders, p \in Nodes \cup {InvalidPath},
                          m \in MaterialPaths : BindCall(kind, p, m)
    \/ SkipInstance
    \/ BindRaise
    \/ \E success \in BOOLEAN : BindVisual(success)
    \/ \E has_physics \in BOOLEAN : BindPhysics(has_physics)
    \/ ApplyFinish

SpecBind == Init /\ [][NextBind]_vars

\* ---------------------------------------------- properties: apply_nested
\* The prims func returned True on, the prims func was called on, and the prims
\* the walk visited (took from the work list, passed to func, or recorded as instanced).
Succeeded ==
    {func_calls[i].path : i \in {j \in 1..Len(func_calls) :
                                    ~func_calls[j].raised /\ func_calls[j].result}}
Failed ==
    {func_calls[i].path : i \in {j \in 1..Len(func_calls) :
                                    ~func_calls[j].raised /\ ~func_calls[j].result}}
Called == {func_calls[i].path : i \in 1..Len(func_calls)}
Visited == Range(dequeued) \cup Called \cup Range(instanced_prim_paths)

\* The number of times func was called on prim n.
CallsOn(n) == Cardinality({i \in 1..Len(func_calls) : func_calls[i].path = n})

\* The prims under the root of the call, the root included.
Subtree(root) == {root} \cup Descendants(root)

IsInstancePrim(n) == n \in instance
InstancedInOrder == SelectSeq(dequeued, IsInstancePrim)

AllReturnedFalse == \A i \in 1..Len(func_calls) :
                       ~func_calls[i].raised /\ ~func_calls[i].result
AllReturnedTrue == \A i \in 1..Len(func_calls) :
                      ~func_calls[i].raised /\ func_calls[i].result

\* C1: once func has returned True on a prim, no descendant of that prim is
\* taken from the work list, passed to func or recorded as instanced in the call;
\* so func never succeeds on both a prim and one of its ancestors.
C1_NoVisitBelowSuccess ==
    \A n \in Succeeded :
       /\ Descendants(n) \cap Visited = {}
       /\ Ancestors(n) \cap Succeeded = {}

\* A finished walk in which func succeeded on a prim that has descendants and
\* went on to other prims afterwards.
C1_Witness ==
    /\ pc = "done"
    /\ \E n \in Succeeded :
          /\ Descendants(n) # {}
          /\ \E i \in 1..(Len(dequeued) - 1) : dequeued[i] = n

\* C2: instanced prims are never passed to func; every instanced prim the walk
\* takes from the work list is in the list of instanced prim paths, and none of
\* its children is ever put on the work list.
C2_InstancesSkipped ==
    /\ \A n \in Called : n \notin instance
    /\ \A n \in Range(dequeued) :
          n \in instance =>
             /\ n \in Range(instanced_prim_paths)
             /\ Children(n) \cap (Range(enqueued) \cup Range(all_prims)) = {}
    /\ Range(instanced_prim_paths) \subseteq instance

\* A finished walk that met an instanced prim with children.
C2_Witness ==
    /\ pc = "done"
    /\ \E n \in Range(dequeued) : n \in instance /\ Children(n) # {}

\* C3: a call whose prim path names no valid prim ends with ValueError before func
\* is called on any prim, and no warning is given.
C3_InvalidRootRaises ==
    (pc # "idle" /\ prim_path \notin Nodes) =>
        /\ pc = "raised"
        /\ error = "ValueError"
        /\ func_calls = <<>>
        /\ dequeued = <<>>
        /\ log_warn = <<>>

\* A call on a path that names no prim.
C3_Witness == pc = "raised" /\ prim_path \notin Nodes /\ error = "ValueError"

\* C4: when the walk of a valid root ends without func raising, the warning is
\* given exactly when the success count is zero, which is exactly when func
\* succeeded nowhere; it names the root and lists every instanced prim the walk
\* skipped; the call returns normally with or without it.
C4_WarnIffNoSuccess ==
    /\ log_warn # <<>> => pc = "done"
    /\ pc = "done" =>
          /\ error = "none"
          /\ count_success = Cardinality(Succeeded)
          /\ Len(log_warn) = (IF count_success = 0 THEN 1 ELSE 0)
          /\ Succeeded # {} => log_warn = <<>>
          /\ log_warn # <<>> =>
                /\ log_warn[1].under = prim_path
                /\ log_warn[1].instanced = InstancedInOrder

\* A walk that ended with the warning after calling func and skipping two instanced prims.
C4_Witness ==
    /\ pc = "done"
    /\ Len(log_warn) = 1
    /\ Len(log_warn[1].instanced) >= 2
    /\ func_calls # <<>>

\* C5 as stated: when func returned False on every call, the success count is 0,
\* the warning is given and every prim of the subtree that is not instanced was
\* passed to func exactly once.
C5_AsStated ==
    (pc = "done" /\ AllReturnedFalse) =>
        /\ count_success = 0
        /\ Len(log_warn) = 1
        /\ \A n \in Subtree(prim_path) : n \notin instance => CallsOn(n) = 1

\* C5 amended: when func returned False on every call, the success count is 0,
\* the warning is given, and every prim of the subtree that is not instanced and
\* not below an instanced prim of the subtree was passed to func exactly once
\* (the prims below an instanced prim are not visited).
C5_AllFalseVisitsReachable ==
    (pc = "done" /\ AllReturnedFalse) =>
        /\ count_success = 0
        /\ Len(log_warn) = 1
        /\ \A n \in Subtree(prim_path) :
              n \notin instance =>
                 CallsOn(n) = (IF Ancestors(n) \cap Subtree(prim_path) \cap instance = {}
                               THEN 1 ELSE 0)

\* A finished all-False walk over a subtree with three prims func was called on
\* and a prim below an instanced prim.
C5_Witness ==
    /\ pc = "done"
    /\ AllReturnedFalse
    /\ Len(func_calls) >= 3
    /\ \E n \in Subtree(prim_path) :
          n \notin instance /\ Ancestors(n) \cap Subtree(prim_path) \cap instance # {}

\* C6 as stated: for a root with no instanced descendants and func returning True on
\* every call, func is called on the root alone, the success count is 1, no child
\* is put on the work list and no warning is given.
C6_AsStated ==
    (pc = "done" /\ Descendants(prim_path) \cap instance = {} /\ AllReturnedTrue) =>
        /\ Len(func_calls) = 1
        /\ func_calls[1].path = prim_path
        /\ count_success = 1
        /\ enqueued = <<prim_path>>
        /\ log_warn = <<>>

\* C6 amended: the same, for a root that is not instanced itself and has no
\* instanced descendants.
C6_AllTrueStopsAtRoot ==
    /\ (pc = "done" /\ prim_path \notin instance
           /\ Descendants(prim_path) \cap instance = {} /\ AllReturnedTrue) =>
          /\ Len(func_calls) = 1
          /\ func_calls[1].path = prim_path
          /\ count_success = 1
          /\ log_warn = <<>>
    /\ (pc \in {"loop", "done"} /\ prim_path \notin instance
           /\ Descendants(prim_path) \cap instance = {} /\ AllReturnedTrue) =>
          enqueued = <<prim_path>>

\* A finished walk in which func returned True on a root that has descendants,
\* none of them instanced.
C6_Witness ==
    /\ pc = "done"
    /\ prim_path \notin instance
    /\ Descendants(prim_path) # {}
    /\ Descendants(prim_path) \cap instance = {}
    /\ Len(func_calls) = 1
    /\ AllReturnedTrue

\* The depth of a prim on the stage.
Depth(n) == Cardinality(Ancestors(n))

\* The breadth-first order, level by level: the prims of one level followed by the
\* children, in the host's order, of those of them func returned False on.
RECURSIVE ChildrenOfLevel(_)
ChildrenOfLevel(level) ==
    IF level = <<>> THEN <<>>
    ELSE (IF Head(level) \in Failed /\ Head(level) \notin instance
          THEN GetChildren(Head(level)) ELSE <<>>) \o ChildrenOfLevel(Tail(level))

RECURSIVE LevelOrder(_)
LevelOrder(level) ==
    IF level = <<>> THEN <<>> ELSE level \o LevelOrder(ChildrenOfLevel(level))

\* C7: the prims are visited breadth-first: the root first, then in non-decreasing
\* depth, the children of a prim in the host's order and the children of a prim
\* visited earlier before those of a prim visited later; the order is a function of
\* the stage, the root and what func returns.
C7_BreadthFirstOrder ==
    /\ dequeued # <<>> => dequeued[1] = prim_path
    /\ LET walk == dequeued \o all_prims IN
       \A i, j \in 1..Len(walk) : i < j => Depth(walk[i]) <= Depth(walk[j])
    /\ pc = "done" => dequeued = LevelOrder(<<prim_path>>)

\* A finished walk from prim 1 over the children 2 and 3 of prim 1 and the child 4
\* of prim 2: 4 comes after 3.
C7_Witness ==
    /\ pc = "done"
    /\ parent[2] = 1 /\ parent[3] = 1 /\ parent[4] = 2
    /\ Len(dequeued) >= 4
    /\ SubSeq(dequeued, 1, 4) = <<1, 2, 3, 4>>

\* ----------------------------------------------------- properties: clone
IsSpawnCall(e) == e.call = "func"
IsClonerCall(e) == e.call = "Cloner.clone"
IsConfigCall(e) ==
    e.call \in {"set_prim_visibility", "SemanticsAPI.Apply", "activate_contact_sensors"}

\* The calls of func and of Cloner.clone made so far.
SpawnCalls == SelectSeq(host_calls, IsSpawnCall)
ClonerCalls == SelectSeq(host_calls, IsClonerCall)

\* The i-th candidate path: the i-th resolved parent path, "/" and the leaf name.
Candidate(i) == source_prim_paths[i] \o <<"/">> \o asset_path

\* C8: in every call that gets past the resolution of the parent expression, func is
\* called exactly once, at the first candidate path, however many candidates there
\* are; the call returns the handle that call of func returned.
C8_SpawnOnceAtFirst ==
    /\ Len(SpawnCalls) <= 1
    /\ SpawnCalls # <<>> => SpawnCalls[1].prim_path = Candidate(1)
    /\ cpc \in {"idle", "resolved"} => SpawnCalls = <<>>
    /\ (cpc \notin {"idle", "resolved"} /\ source_prim_paths # <<>>) => Len(SpawnCalls) = 1
    /\ cpc = "done" => ret = SpawnCalls[1].returned

\* A call that returned the second handle after the parent expression matched
\* several prims.
C8_Witness ==
    /\ cpc = "done"
    /\ Len(source_prim_paths) >= 2
    /\ ret = "primB"

\* C9: a call that reaches its end has called Cloner.clone if and only if there is
\* more than one candidate path; Cloner.clone is called at most once, with the first
\* candidate as the source and the other candidates, in the order of resolution, as
\* the targets: N >= 2 matches give N - 1 targets.
C9_CloneIffSeveral ==
    /\ Len(ClonerCalls) <= 1
    /\ ClonerCalls # <<>> =>
          /\ Len(source_prim_paths) > 1
          /\ ClonerCalls[1].source = Candidate(1)
          /\ ClonerCalls[1].targets =
                [i \in 1..(Len(source_prim_paths) - 1) |-> Candidate(i + 1)]
          /\ Len(ClonerCalls[1].targets) = Len(source_prim_paths) - 1
    /\ cpc \in {"cloned", "done"} =>
          (Len(ClonerCalls) = 1 <=> Len(source_prim_paths) > 1)

\* A call that returned after cloning to two targets.
C9_Witness ==
    /\ cpc = "done"
    /\ Len(source_prim_paths) = 3
    /\ Len(ClonerCalls) = 1
    /\ Len(ClonerCalls[1].targets) = 2

\* C10: when the parent expression matches no prim, the call ends with RuntimeError
\* before func is called, and neither the configuration of the spawned prim nor
\* Cloner.clone takes place.
C10_NoMatchRaises ==
    (/\ host_calls # <<>>
     /\ host_calls[1].call = "find_matching_prim_paths"
     /\ host_calls[1].result = <<>>) =>
        /\ cpc = "raised"
        /\ cerror = "RuntimeError"
        /\ Len(host_calls) = 1
        /\ prim = "none"
        /\ ret = "none"

\* A call whose parent expression matched no prim.
C10_Witness ==
    /\ cpc = "raised"
    /\ cerror = "RuntimeError"
    /\ host_calls # <<>>
    /\ host_calls[1].result = <<>>

\* The parent segment of the path given to the call holds only characters a prim
\* path may hold (it may be empty).
ParentIsLiteral == \A i \in 1..Len(root_path) : root_path[i] \in {"a", "/"}

\* The path given to the call was split at a "/".
WasSplit == cpc # "idle" /\ \E i \in 1..Len(clone_prim_path) : clone_prim_path[i] = "/"

\* C11: when the parent segment of the path is a plain literal or empty, the host is
\* not asked to resolve it (no find_matching_prim_paths call comes before the call
\* of func), there is exactly one candidate path, the literal parent followed by "/"
\* and the leaf name, which is the path as given, and Cloner.clone is not called.
C11_LiteralParentUsedAsIs ==
    (WasSplit /\ ParentIsLiteral) =>
        /\ cerror # "RuntimeError"
        /\ \A i \in 1..Len(host_calls) :
              host_calls[i].call = "find_matching_prim_paths" =>
                 \E j \in 1..(i - 1) : host_calls[j].call = "func"
        /\ source_prim_paths = <<root_path>>
        /\ prim_paths = <<root_path \o <<"/">> \o asset_path>>
        /\ prim_paths[1] = clone_prim_path
        /\ ClonerCalls = <<>>

\* A call with an empty parent segment that returned.
C11_Witness ==
    /\ cpc = "done"
    /\ WasSplit
    /\ root_path = <<>>
    /\ asset_path # <<>>

\* Path p is path q or lies under it.
AtOrUnder(p, q) ==
    \/ p = q
    \/ Len(p) > Len(q) /\ SubSeq(p, 1, Len(q) + 1) = q \o <<"/">>

\* The positions of host_calls that hold the call of func and the call of Cloner.clone.
SpawnPositions == {i \in 1..Len(host_calls) : host_calls[i].call = "func"}
ClonerPositions == {i \in 1..Len(host_calls) : host_calls[i].call = "Cloner.clone"}

\* C12: the configuration of the spawned prim (visibility, semantic tags, contact
\* sensors) is applied to the prim func returned, or, for the contact sensors, at the
\* first candidate path or at paths under it, never at another candidate path; each
\* of these calls comes after the call of func and before the call of Cloner.clone.
C12_ConfigOnFirstBetweenSpawnAndClone ==
    \A i \in 1..Len(host_calls) :
       IsConfigCall(host_calls[i]) =>
          /\ \E j \in SpawnPositions : j < i
          /\ \A k \in ClonerPositions : i < k
          /\ host_calls[i].call \in {"set_prim_visibility", "SemanticsAPI.Apply"} =>
                host_calls[i].prim = SpawnCalls[1].returned
          /\ host_calls[i].call = "activate_contact_sensors" =>
                /\ AtOrUnder(host_calls[i].prim_path, Candidate(1))
                /\ \A c \in 2..Len(source_prim_paths) :
                      ~AtOrUnder(host_calls[i].prim_path, Candidate(c))

\* A call that returned after setting the visibility, writing two semantic tags,
\* activating the contact sensors at the spawned prim and cloning to two targets.
C12_Witness ==
    /\ cpc = "done"
    /\ Len(source_prim_paths) = 3
    /\ ClonerCalls # <<>>
    /\ cfg.visible.has
    /\ Len(cfg.semantic_tags.tags) = 2
    /\ cfg.activate_contact_sensors.kind = "bool"
    /\ cfg.activate_contact_sensors.flag

IsVisibilityCall(e) == e.call = "set_prim_visibility"
IsSemanticsCall(e) == e.call = "SemanticsAPI.Apply"
IsActivateCall(e) == e.call = "activate_contact_sensors"

\* The number of semantic tags the configuration asks for.
TagsAsked == IF cfg.semantic_tags.kind = "list" THEN Len(cfg.semantic_tags.tags) ELSE 0

\* C13: when cfg.activate_contact_sensors is neither a bool nor a str, a call that got
\* past the resolution of the parent expression ends with ValueError; by then func
\* has been called and the visibility and the semantic tags have been written, and
\* they stay written; Cloner.clone is never called and nothing is returned.
C13_BadSelectorRaisesAfterWrites ==
    (cfg.activate_contact_sensors.kind = "other" /\ source_prim_paths # <<>>) =>
        /\ cpc \in {"resolved", "spawned", "visibility_set", "tagged", "raised"}
        /\ ClonerCalls = <<>>
        /\ SelectSeq(host_calls, IsActivateCall) = <<>>
        /\ ret = "none"
        /\ cpc = "raised" =>
              /\ cerror = "ValueError"
              /\ Len(SpawnCalls) = 1
              /\ Len(SelectSeq(host_calls, IsVisibilityCall))
                    = (IF cfg.visible.has THEN 1 ELSE 0)
              /\ Len(SelectSeq(host_calls, IsSemanticsCall)) = TagsAsked
              /\ Len(host_calls) = 1 + (IF cfg.visible.has THEN 1 ELSE 0) + TagsAsked
                                     + (IF NeedsResolution(root_path) THEN 1 ELSE 0)

\* A call over several candidates that ended with ValueError after the visibility and
\* two semantic tags were written.
C13_Witness ==
    /\ cpc = "raised"
    /\ cerror = "ValueError"
    /\ cfg.activate_contact_sensors.kind = "other"
    /\ Len(source_prim_paths) >= 2
    /\ Len(SelectSeq(host_calls, IsVisibilityCall)) = 1
    /\ Len(SelectSeq(host_calls, IsSemanticsCall)) = 2

\* The paths the contact sensors were activated at, in order.
ActivatedPaths ==
    LET calls == SelectSeq(host_calls, IsActivateCall)
    IN  [i \in 1..Len(calls) |-> calls[i].prim_path]

\* The positions of the find_matching_prim_paths calls made after the call of func.
SubPatternPositions ==
    {i \in 1..Len(host_calls) :
        /\ host_calls[i].call = "find_matching_prim_paths"
        /\ \E j \in SpawnPositions : j < i}

\* C14: once the contact-sensor step is over, the sensors have been activated, once
\* per path: for the selector True at the first candidate path alone, for False
\* nowhere, and for a string at exactly the paths the host matched to the first
\* candidate path followed by "/" and the string (nowhere if it matched none).
C14_SelectorPicksTargets ==
    /\ cpc \in {"idle", "resolved", "spawned", "visibility_set", "tagged"} =>
          ActivatedPaths = <<>>
    /\ cpc \in {"activated", "cloned", "done"} =>
          LET selector == cfg.activate_contact_sensors IN
          /\ (selector.kind = "bool" /\ selector.flag) => ActivatedPaths = <<Candidate(1)>>
          /\ (selector.kind = "bool" /\ ~selector.flag) => ActivatedPaths = <<>>
          /\ selector.kind = "absent" => ActivatedPaths = <<>>
          /\ selector.kind # "str" => SubPatternPositions = {}
          /\ selector.kind = "str" =>
                /\ Cardinality(SubPatternPositions) = 1
                /\ \A i \in SubPatternPositions :
                      /\ host_calls[i].pattern = Candidate(1) \o <<"/">> \o selector.pattern
                      /\ ActivatedPaths = host_calls[i].result

\* A call that returned after a string selector matched two paths.
C14_Witness ==
    /\ cpc = "done"
    /\ cfg.activate_contact_sensors.kind = "str"
    /\ Len(ActivatedPaths) = 2
    /\ Len(source_prim_paths) >= 2

\* C15: every call of Cloner.clone has replicate_physics = False; copy_from_source is
\* passed, with the value of cfg.copy_from_source, when the host's major version is
\* above 2022, and is left out when it is 2022 or below.
C15_ClonerArguments ==
    \A i \in 1..Len(ClonerCalls) :
       /\ ClonerCalls[i].replicate_physics = FALSE
       /\ isaac_major_version \in IsaacVersions
       /\ isaac_major_version <= LastVersionWithoutCopyFlag =>
             ClonerCalls[i].copy_from_source = "omitted"
       /\ isaac_major_version > LastVersionWithoutCopyFlag =>
             ClonerCalls[i].copy_from_source
                = (IF cfg.copy_from_source THEN "True" ELSE "False")

\* A call that returned after cloning with copy_from_source = True on a host above 2022.
C15_Witness ==
    /\ cpc = "done"
    /\ ClonerCalls # <<>>
    /\ isaac_major_version > LastVersionWithoutCopyFlag
    /\ ClonerCalls[1].copy_from_source = "True"

\* A sequence of characters with every space turned into an underscore.
RECURSIVE Underscored(_)
Underscored(s) ==
    IF s = <<>> THEN <<>>
    ELSE <<IF Head(s) = " " THEN "_" ELSE Head(s)>> \o Underscored(Tail(s))

SemanticsCalls == SelectSeq(host_calls, IsSemanticsCall)

\* C16: once the semantic tags are written, there is one SemanticsAPI.Apply call per
\* (type, value) pair of cfg.semantic_tags, in order, on the prim func returned; its
\* instance name is the type, "_" and the value with every space replaced by "_"
\* ("object type", "soda can" gives "object_type_soda_can"), and its type and data
\* attributes are the type and the value as given.
C16_SemanticTagNames ==
    /\ cpc \in {"idle", "resolved", "spawned", "visibility_set"} => SemanticsCalls = <<>>
    /\ (\/ cpc \in {"tagged", "activated", "cloned", "done"}
        \/ cpc = "raised" /\ source_prim_paths # <<>>) =>
          /\ Len(SemanticsCalls) = TagsAsked
          /\ \A i \in 1..Len(SemanticsCalls) :
                LET tag == cfg.semantic_tags.tags[i]
                    call == SemanticsCalls[i]
                IN
                /\ call.prim = SpawnCalls[1].returned
                /\ call.instance_name = Underscored(tag[1]) \o <<"_">> \o Underscored(tag[2])
                /\ \A k \in 1..Len(call.instance_name) : call.instance_name[k] # " "
                /\ call.semantic_type = tag[1]
                /\ call.semantic_data = tag[2]
                /\ (tag[1] = <<"o", "b", "j", "e", "c", "t", " ", "t", "y", "p", "e">>
                       /\ tag[2] = <<"s", "o", "d", "a", " ", "c", "a", "n">>) =>
                      call.instance_name =
                         <<"o", "b", "j", "e", "c", "t", "_", "t", "y", "p", "e", "_",
                           "s", "o", "d", "a", "_", "c", "a", "n">>

\* A call that returned after tagging the prim with ("object type", "soda can").
C16_Witness ==
    /\ cpc = "done"
    /\ Len(SemanticsCalls) = 1
    /\ SemanticsCalls[1].semantic_type = SemanticWordA
    /\ SemanticsCalls[1].semantic_data = SemanticWordB

\* The prims under the root all of whose proper ancestors up to the root are
\* not instanced and had func return False.
Exposed ==
    {n \in Subtree(prim_path) :
        \A a \in Ancestors(n) \cap Subtree(prim_path) : a \notin instance /\ a \in Failed}

\* C18: when a call on a valid prim has returned, func was called exactly once on
\* each prim that is not instanced and whose proper ancestors up to the root are
\* all non-instanced prims func returned False on, and on no other prim; the
\* instanced prims recorded are exactly the instanced prims with such ancestors,
\* each once. An instanced root gives no success and the root as the only
\* recorded prim; a root without children gives one iteration.
C18_CallsExactlyExposed ==
    (pc = "done" /\ prim_path \in Nodes) =>
       /\ \A n \in Nodes :
             CallsOn(n) = (IF n \in Exposed /\ n \notin instance THEN 1 ELSE 0)
       /\ Range(instanced_prim_paths) = Exposed \cap instance
       /\ Len(instanced_prim_paths) = Cardinality(Exposed \cap instance)
       /\ prim_path \in instance =>
             /\ count_success = 0 /\ Succeeded = {}
             /\ instanced_prim_paths = <<prim_path>>
       /\ Children(prim_path) = {} => Len(dequeued) = 1

\* A returned call in which func was called below the root, an instanced prim was
\* met below the root, and the prims below a success and below an instanced prim
\* were left alone.
C18_Witness ==
    /\ pc = "done"
    /\ \E n \in Called : parent[n] \in Called
    /\ \E n \in Range(instanced_prim_paths) : n # prim_path /\ Children(n) # {}
    /\ \E n \in Succeeded : Children(n) # {}

\* C19: with a func that returns on every prim, a walk that has started ends with
\* an empty work list; throughout, no prim is taken from the work list twice, no
\* prim taken is still on it, and the number of prims taken and waiting is at most
\* the number of prims under the root, the root included.
C19_WalkTerminates ==
    /\ [](prim_path \in Nodes =>
            /\ \A i, j \in 1..Len(dequeued) : i # j => dequeued[i] # dequeued[j]
            /\ Range(dequeued) \cap Range(all_prims) = {}
            /\ Len(dequeued) + Len(all_prims) <= Cardinality(Subtree(prim_path)))
    /\ (pc = "loop") ~> (pc = "done" /\ all_prims = <<>>)

\* A walk that took every prim of the stage from the work list and returned.
C19_Witness ==
    /\ pc = "done"
    /\ all_prims = <<>>
    /\ Len(dequeued) = MaxNodes
    /\ Len(dequeued) = Cardinality(Subtree(prim_path))

\* ------------------------------------------- properties: material binding
\* C17: a call of bind_visual_material or bind_physics_material on a valid prim
\* with a material path that names no prim ends with ValueError, whether or not
\* the prim is instanced, and binds no material.
C17_AsStated ==
    (binder \in Binders /\ pc \in {"done", "raised"}
        /\ prim_path \in Nodes /\ material_path \notin Nodes) =>
       (pc = "raised" /\ error = "ValueError" /\ bound = {})

\* A call on an instanced prim with a material path that names no prim has
\* returned: neither function was run, only the warning was logged.
C17_Witness ==
    /\ binder \in Binders
    /\ pc = "done" /\ error = "none"
    /\ prim_path \in instance
    /\ material_path \notin Nodes
    /\ func_calls = <<>>
    /\ log_warn # <<>>

====
